---- MODULE Spec2Model ----
(***************************************************************************)
(* Model of OutlierIsolationForest (seldon-core outlier detection):        *)
(* a session object with predict / send_feedback / metrics, its growing    *)
(* histories and the stored 18-element metric list.                        *)
(*                                                                         *)
(* Numbers that may be not-a-number (scores, rates, reported gauges) are   *)
(* pairs <<numerator, denominator>>: an integer k is <<k, 1>>, a rate is a *)
(* reduced fraction and not-a-number is <<0, 0>>.                          *)
(***************************************************************************)
EXTENDS Integers, Sequences, FiniteSets, TLC

\* ------------------------------------------------------------------ bounds
\* Largest batch passed to predict, and longest truth passed to send_feedback.
MaxBatch == 2
\* predict is not called once N would exceed this.
MaxN == 3
\* send_feedback is not called once the label history would exceed this.
MaxLabels == 3

\* Anomaly scores the score source can return and the thresholds a session
\* can be constructed with (0 is the default): between them a score below,
\* at and above the threshold.
Scores == {0, 1}
Thresholds == {0, 1}
Truths == {0, 1}

\* ------------------------------------------------------------ number domain
NaN == <<0, 0>>
Num(k) == <<k, 1>>
IsNaN(x) == x[2] = 0

RECURSIVE GCD(_, _)
GCD(a, b) == IF b = 0 THEN a ELSE GCD(b, a % b)

\* Mutant of Div: an undefined rate reported as 0.
DivZeroIsZero(n, d) == IF d = 0 THEN <<0, 1>> ELSE <<n \div GCD(n, d), d \div GCD(n, d)>>

\* n / d as numpy computes it for non-negative counts: 0/0 (and x/0) is nan.
Div(n, d) == IF d = 0 THEN NaN ELSE <<n \div GCD(n, d), d \div GCD(n, d)>>

\* All sequences over S with length in lo..hi.
SeqsOf(S, lo, hi) == UNION {[1..n -> S] : n \in lo..hi}

\* An instance attribute that __init__ does not create (prediction, label,
\* decision_val) is unset until the first call that assigns it.
UNSET == [set |-> FALSE, val |-> <<>>]
Attr(v) == [set |-> TRUE, val |-> v]

\* ------------------------------------------------------------------- utils
\* A flat python list seen as a list of items, each scalar x standing as <<x>>.
Wrap(s) == [i \in 1..Len(s) |-> <<s[i]>>]

\* utils.flatten: the items of a nested list in order, a scalar giving itself.
RECURSIVE flatten(_)
flatten(x) == IF x = <<>> THEN <<>> ELSE Head(x) \o flatten(Tail(x))

\* Python indexing s[i], i negative counting from the tail.
InRange(s, i) == IF i < 0 THEN -i <= Len(s) ELSE i < Len(s)
PyIndex(s, i) == IF i < 0 THEN s[Len(s) + i + 1] ELSE s[i + 1]

\* ------------------------------------------------------------------- state
VARIABLES
    threshold,        \* self.threshold
    N,                \* self.N
    _predictions,     \* self._predictions
    _labels,          \* self._labels
    _anomaly_score,   \* self._anomaly_score
    metric,           \* self.metric
    decision_val,     \* self.decision_val (unset before the first predict)
    prediction,       \* self.prediction   (unset before the first predict)
    label,            \* self.label        (unset before the first send_feedback)
    self_roll_window, \* self.roll_window
    op,               \* the last call made on the session
    ret,              \* what that call returned or raised
    batchSum          \* history variable: sum of the batch sizes given to predict

session == <<threshold, N, _predictions, _labels, _anomaly_score, metric,
             decision_val, prediction, label, self_roll_window>>
vars == <<threshold, N, _predictions, _labels, _anomaly_score, metric,
          decision_val, prediction, label, self_roll_window, op, ret, batchSum>>

Returned(p, s) == [err |-> "none", pred |-> p, snap |-> s]
Raised(e) == [err |-> e, pred |-> <<>>, snap |-> <<>>]

\* ----------------------------------------------------------- MetricsEngine
\* utils.performance and utils.outlier_stats: computed over the aligned
\* (label, prediction) pairs, cumulatively and over the trailing window.
Min(a, b) == IF a < b THEN a ELSE b

\* Number of aligned pairs, and the first index of the trailing window.
AlignedLen(y_true, y_pred) == Min(Len(y_true), Len(y_pred))
RollStart(y_true, y_pred, roll_window) ==
    AlignedLen(y_true, y_pred) - Min(roll_window, AlignedLen(y_true, y_pred)) + 1

\* Pairs (label t, prediction p) among the aligned indices from..L.
Pairs(y_true, y_pred, from, t, p) ==
    Cardinality({i \in from..AlignedLen(y_true, y_pred) :
                    y_true[i] = t /\ y_pred[i] = p})

\* accuracy, precision, recall, F1, F2 of a confusion matrix; a zero
\* denominator gives not-a-number.
rates(tn, fp, fn, tp) ==
    << Div(tp + tn, tp + tn + fp + fn),
       Div(tp, tp + fp),
       Div(tp, tp + fn),
       IF tp = 0 THEN NaN ELSE Div(2 * tp, 2 * tp + fp + fn),
       IF tp = 0 THEN NaN ELSE Div(5 * tp, 5 * tp + 4 * fn + fp) >>

confusion(y_true, y_pred, from) ==
    << Pairs(y_true, y_pred, from, 0, 0), Pairs(y_true, y_pred, from, 0, 1),
       Pairs(y_true, y_pred, from, 1, 0), Pairs(y_true, y_pred, from, 1, 1) >>

rates_of(cm) == rates(cm[1], cm[2], cm[3], cm[4])

\* [tn, fp, fn, tp, 5 cumulative rates, 5 rolling rates]
performance(y_true, y_pred, roll_window) ==
    LET tot == confusion(y_true, y_pred, 1)
        roll == confusion(y_true, y_pred, RollStart(y_true, y_pred, roll_window))
    IN  <<Num(tot[1]), Num(tot[2]), Num(tot[3]), Num(tot[4])>>
            \o rates_of(tot) \o rates_of(roll)

\* [nb_outliers_roll, nb_labels_roll, nb_outliers_tot, nb_labels_tot]
outlier_stats(y_true, y_pred, roll_window) ==
    LET tot == confusion(y_true, y_pred, 1)
        roll == confusion(y_true, y_pred, RollStart(y_true, y_pred, roll_window))
    IN  << Num(roll[2] + roll[4]), Num(roll[3] + roll[4]),
           Num(tot[2] + tot[4]), Num(tot[3] + tot[4]) >>

\* np.asscalar(np.asarray(c)): the numpy scalar as the native python number of
\* the same value (nan stays nan); in the number domain used here both are
\* the same pair.
asscalar(c) == <<c[1], c[2]>>

\* -------------------------------------------------------------- __init__
roll_window == 100

Init ==
    /\ threshold \in Thresholds
    /\ N = 0
    /\ _predictions = <<>>
    /\ _labels = <<>>
    /\ _anomaly_score = <<>>
    /\ metric = [i \in 1..18 |-> NaN]
    /\ decision_val = UNSET
    /\ prediction = UNSET
    /\ label = UNSET
    /\ self_roll_window = roll_window
    /\ op = "__init__"
    /\ ret = Returned(<<>>, <<>>)
    /\ batchSum = 0

\* --------------------------------------------------------------- predict
\* Mutant of below_threshold: a score equal to the threshold counted an outlier.
below_or_at_threshold(d, t) == [i \in 1..Len(d) |-> IF d[i] <= t THEN 1 ELSE 0]

\* Mutant of below_threshold: the comparison turned round.
above_threshold(d, t) == [i \in 1..Len(d) |-> IF d[i] > t THEN 1 ELSE 0]

\* (decision_val < threshold).astype(int)
below_threshold(d, t) == [i \in 1..Len(d) |-> IF d[i] < t THEN 1 ELSE 0]

\* Mutant of count_update: the counter advanced per call, not per observation.
count_update_per_call(n, p) == n + 1

\* self.N += self.prediction.shape[0]
count_update(n, p) == n + Len(p)

\* Mutant of append_flatten: the batch put in front of the history.
prepend_flatten(history, batch) == flatten(<<batch>> \o Wrap(history))

\* list.append(batch) followed by flatten
append_flatten(history, batch) == flatten(Append(Wrap(history), batch))

\* predict(X, feature_names); d is clf.decision_function(X), one score per row.
predict(d) ==
    /\ N + Len(d) <= MaxN
    /\ decision_val' = Attr(d)
    /\ _anomaly_score' = append_flatten(_anomaly_score, d)
    /\ prediction' = Attr(below_threshold(d, threshold))
    /\ _predictions' = append_flatten(_predictions, prediction'.val)
    /\ N' = count_update(N, prediction'.val)
    /\ op' = "predict"
    /\ ret' = Returned(prediction'.val, <<>>)
    /\ batchSum' = batchSum + Len(d)
    /\ UNCHANGED <<threshold, _labels, metric, label, self_roll_window>>

\* The exception clf.decision_function raises when it fails.
ScoreFailures == {"ScoreSourceError"}

\* Mutant of predict_failure: the counter advanced before the scores are asked for.
predict_failure_counted(e) ==
    /\ N < MaxN
    /\ N' = N + 1
    /\ op' = "predict"
    /\ ret' = Raised(e)
    /\ UNCHANGED <<threshold, _predictions, _labels, _anomaly_score, metric,
                   decision_val, prediction, label, self_roll_window, batchSum>>

\* predict(X, feature_names) when clf.decision_function(X) raises e: the first
\* statement of predict fails, nothing is assigned and e leaves the call.
predict_failure(e) ==
    /\ op' = "predict"
    /\ ret' = Raised(e)
    /\ UNCHANGED <<session, batchSum>>

\* --------------------------------------------------------- send_feedback
\* Mutant of recompute: roll_window=self.roll_window not passed on, so the
\* engine's window stays at the 100 of the constructor.
recompute_without_window(labels, predictions) ==
    LET convert == flatten(<<performance(labels, predictions, roll_window),
                             outlier_stats(labels, predictions, roll_window)>>)
    IN  [i \in 1..Len(convert) |-> asscalar(convert[i])]

\* The 18 values stored in self.metric.
recompute(labels, predictions) ==
    LET convert == flatten(<<performance(labels, predictions, self_roll_window),
                             outlier_stats(labels, predictions, self_roll_window)>>)
    IN  [i \in 1..Len(convert) |-> asscalar(convert[i])]

\* send_feedback(X, feature_names, reward, truth).  The labels are appended
\* first; the metric engine then either returns the new values or, when the
\* two histories differ in length (outside its contract), may raise, which
\* leaves self.metric as it was.
send_feedback(truth) ==
    /\ Len(_labels) + Len(truth) <= MaxLabels
    /\ label' = Attr(truth)
    /\ _labels' = append_flatten(_labels, label'.val)
    /\ \/ /\ metric' = recompute(_labels', _predictions)
          /\ ret' = Returned(<<>>, <<>>)
       \/ /\ Len(_labels') # Len(_predictions)
          /\ metric' = metric
          /\ ret' = Raised("ValueError")
    /\ op' = "send_feedback"
    /\ UNCHANGED <<threshold, N, _predictions, _anomaly_score, decision_val,
                   prediction, self_roll_window, batchSum>>

\* --------------------------------------------------------------- metrics
\* Mutant of gauges: precision_tot and recall_tot read from each other's
\* position.
gauges_swapped(pred, dec_val, y_true) ==
    [ is_outlier |-> pred, anomaly_score |-> dec_val,
      observation |-> Num(N - 1), threshold |-> Num(threshold),
      label |-> y_true,
      accuracy_tot |-> metric[5], precision_tot |-> metric[7],
      recall_tot |-> metric[6], f1_tot |-> metric[8], f2_tot |-> metric[9],
      accuracy_roll |-> metric[10], precision_roll |-> metric[11],
      recall_roll |-> metric[12], f1_roll |-> metric[13],
      f2_roll |-> metric[14],
      true_negative |-> metric[1], false_positive |-> metric[2],
      false_negative |-> metric[3], true_positive |-> metric[4],
      nb_outliers_roll |-> metric[15], nb_labels_roll |-> metric[16],
      nb_outliers_tot |-> metric[17], nb_labels_tot |-> metric[18] ]

\* The returned list of gauges, as key |-> value.
gauges(pred, dec_val, y_true) ==
    [ is_outlier |-> pred, anomaly_score |-> dec_val,
      observation |-> Num(N - 1), threshold |-> Num(threshold),
      label |-> y_true,
      accuracy_tot |-> metric[5], precision_tot |-> metric[6],
      recall_tot |-> metric[7], f1_tot |-> metric[8], f2_tot |-> metric[9],
      accuracy_roll |-> metric[10], precision_roll |-> metric[11],
      recall_roll |-> metric[12], f1_roll |-> metric[13],
      f2_roll |-> metric[14],
      true_negative |-> metric[1], false_positive |-> metric[2],
      false_negative |-> metric[3], true_positive |-> metric[4],
      nb_outliers_roll |-> metric[15], nb_labels_roll |-> metric[16],
      nb_outliers_tot |-> metric[17], nb_labels_tot |-> metric[18] ]

\* Mutant of batch_too_large: the batch check off by one.
batch_over_two == Len(prediction.val) > 2

\* if self.prediction.shape[0] > 1
batch_too_large == Len(prediction.val) > 1

\* Mutant of first_observation: the first-observation test off by one.
first_observation_at_zero == N = 0

\* if self.N == 1
first_observation == N = 1

\* Mutant of lagged: the latest entry read instead of the one before it.
latest(history) == PyIndex(history, -1)

\* history[-2]
has_lagged(history) == InRange(history, -2)
lagged(history) == PyIndex(history, -2)

\* self.label[0]
has_first(truth) == InRange(truth, 0)
first(truth) == PyIndex(truth, 0)

\* What metrics() returns or raises, in the order the code evaluates.
metrics_result ==
    IF ~prediction.set THEN Raised("AttributeError")
    ELSE IF batch_too_large THEN Raised("ValueError")
    ELSE IF first_observation THEN Returned(<<>>, <<gauges(NaN, NaN, NaN)>>)
    ELSE IF ~has_lagged(_predictions) THEN Raised("IndexError")
    ELSE IF ~has_lagged(_anomaly_score) THEN Raised("IndexError")
    ELSE IF ~label.set THEN Raised("AttributeError")
    ELSE IF ~has_first(label.val) THEN Raised("IndexError")
    ELSE Returned(<<>>, <<gauges(Num(lagged(_predictions)),
                                 Num(lagged(_anomaly_score)),
                                 Num(first(label.val)))>>)

\* Mutant of metrics: the reported label is cleared once it has been reported.
metrics_clearing_label ==
    /\ op' = "metrics"
    /\ ret' = metrics_result
    /\ label' = UNSET
    /\ UNCHANGED <<threshold, N, _predictions, _labels, _anomaly_score, metric,
                   decision_val, prediction, self_roll_window, batchSum>>

metrics ==
    /\ op' = "metrics"
    /\ ret' = metrics_result
    /\ UNCHANGED <<session, batchSum>>

\* ------------------------------------------------------------------ Next
Next ==
    \/ \E d \in SeqsOf(Scores, 1, MaxBatch) : predict(d)
    \/ \E e \in ScoreFailures : predict_failure(e)
    \/ \E truth \in SeqsOf(Truths, 1, MaxBatch) : send_feedback(truth)
    \/ metrics

Spec == Init /\ [][Next]_vars

\* ------------------------------------------------- windowed sessions
\* Sessions whose roll_window attribute is smaller than the histories they
\* collect, fed one observation and one label at a time.
Windows == {1, 2}

RollInit ==
    /\ threshold \in Thresholds
    /\ N = 0
    /\ _predictions = <<>>
    /\ _labels = <<>>
    /\ _anomaly_score = <<>>
    /\ metric = [i \in 1..18 |-> NaN]
    /\ decision_val = UNSET
    /\ prediction = UNSET
    /\ label = UNSET
    /\ self_roll_window \in Windows
    /\ op = "__init__"
    /\ ret = Returned(<<>>, <<>>)
    /\ batchSum = 0

RollNext ==
    \/ \E d \in SeqsOf(Scores, 1, 1) : predict(d)
    \/ \E truth \in SeqsOf(Truths, 1, 1) : send_feedback(truth)
    \/ metrics

RollSpec == RollInit /\ [][RollNext]_vars

\* ---------------------------------------------------------------- claims
\* The snapshot a successful metrics() call returned.
snapshot == ret.snap[1]
reported == op = "metrics" /\ ret.err = "none"

RateKeys == {"accuracy_tot", "precision_tot", "recall_tot", "f1_tot", "f2_tot",
             "accuracy_roll", "precision_roll", "recall_roll", "f1_roll",
             "f2_roll"}
CountKeys == {"true_negative", "false_positive", "false_negative",
              "true_positive", "nb_outliers_roll", "nb_labels_roll",
              "nb_outliers_tot", "nb_labels_tot"}

\* C1: in every reachable state N equals the sum of the batch sizes of the
\* predict calls made so far and the length of the prediction history, and
\* no step decreases N.
C1_CounterIsBatchSum ==
    /\ [](N = batchSum /\ Len(_predictions) = N)
    /\ [][N' >= N]_vars

\* C1 witness: two predict calls, of batch sizes 1 and 2, have been made.
C1_Witness ==
    /\ op = "predict"
    /\ ret.err = "none"
    /\ Len(prediction.val) = 2
    /\ N = 3
    /\ Len(_predictions) = 3

\* C2 as claimed: the label history is never longer than the prediction
\* history, whatever the order and the batch sizes of the calls.
C2_LabelsAtMostPredictions == Len(_labels) <= Len(_predictions)

\* C3: when metrics() succeeds with N >= 2, the reported is_outlier and
\* anomaly_score are the prediction and the score at absolute index N-2
\* (position N-1 counting from 1) of their histories.
C3_ReportsSecondToLast ==
    (reported /\ N >= 2) =>
        /\ snapshot.is_outlier = Num(_predictions[N - 1])
        /\ snapshot.anomaly_score = Num(_anomaly_score[N - 1])

\* C3 witness: a successful report with N >= 2 where the latest prediction
\* and score differ from the ones before them.
C3_Witness ==
    /\ reported
    /\ N >= 2
    /\ _predictions[N] # _predictions[N - 1]
    /\ _anomaly_score[N] # _anomaly_score[N - 1]

\* C4 as claimed: when metrics() succeeds with N >= 2, the latest feedback
\* carried one label and the label of the prediction at index N-2 has been
\* received, the reported label is that label (position N-1 counting from 1
\* of the label history), also when the label of the latest prediction has
\* arrived as well.
C4_LabelOfReportedPrediction ==
    (reported /\ N >= 2 /\ Len(label.val) = 1 /\ Len(_labels) >= N - 1) =>
        snapshot.label = Num(_labels[N - 1])

\* C5 as claimed: a send_feedback call whose truth length differs from the
\* length of the most recent predict batch raises and leaves the label,
\* prediction and score histories and the stored metric as they were.
C5_MismatchedFeedbackRejected ==
    [][(op' = "send_feedback" /\ prediction.set
            /\ Len(label'.val) # Len(prediction.val)) =>
        /\ ret'.err # "none"
        /\ _labels' = _labels
        /\ _predictions' = _predictions
        /\ _anomaly_score' = _anomaly_score
        /\ metric' = metric]_vars

\* C6: when the most recent predict batch had more than one element,
\* metrics() raises ValueError, returns no snapshot and leaves N, the
\* histories and the stored metric (the whole session) unchanged.
C6_LargeBatchReportRaises ==
    [][(op' = "metrics" /\ prediction.set /\ Len(prediction.val) > 1) =>
        /\ ret' = Raised("ValueError")
        /\ UNCHANGED session]_vars

\* C6 witness: metrics() was called after a predict batch of two.
C6_Witness ==
    /\ op = "metrics"
    /\ Len(prediction.val) = 2
    /\ ret.err = "ValueError"

\* C7: metrics() called with N = 1 returns a snapshot whose is_outlier,
\* anomaly_score and label are not-a-number and whose observation is 0,
\* whether or not a label has been received.
C7_FirstObservationSentinels ==
    (op = "metrics" /\ N = 1) =>
        /\ ret.err = "none"
        /\ Len(ret.snap) = 1
        /\ snapshot.is_outlier = NaN
        /\ snapshot.anomaly_score = NaN
        /\ snapshot.label = NaN
        /\ snapshot.observation = Num(0)

\* C7 witness: the report at N = 1 was made after a label had been received.
C7_Witness ==
    /\ reported
    /\ N = 1
    /\ label.set
    /\ Len(label.val) = 1
    /\ Len(_labels) = 1

\* C8: predict returns one value per score, 1 where the score is strictly
\* below the threshold and 0 elsewhere (also where it equals the threshold).
C8_PredictClassifiesByThreshold ==
    (op = "predict" /\ ret.err = "none") =>
        /\ Len(ret.pred) = Len(decision_val.val)
        /\ \A i \in 1..Len(ret.pred) :
              /\ ret.pred[i] \in {0, 1}
              /\ ret.pred[i] = 1 <=> decision_val.val[i] < threshold

\* C8 witness: a batch holding a score at the threshold, returned as 0, and
\* a score below it, returned as 1.
C8_Witness ==
    /\ op = "predict"
    /\ ret.err = "none"
    /\ \E i, j \in 1..Len(ret.pred) :
          /\ decision_val.val[i] = threshold /\ ret.pred[i] = 0
          /\ decision_val.val[j] < threshold /\ ret.pred[j] = 1

\* C9: a metrics() call changes no session state, and a metrics() call that
\* directly follows another returns (or raises) the same as the first.
C9_ReportReadOnlyIdempotent ==
    [][(op' = "metrics") =>
        /\ UNCHANGED session
        /\ (op = "metrics" => ret' = ret)]_vars

\* C9 witness: a report that returned a lagged snapshot with a label.
C9_Witness ==
    /\ reported
    /\ N >= 2
    /\ ~IsNaN(snapshot.label)

\* C10 as claimed: while no label has been received, every rate field of a
\* returned snapshot is not-a-number and every count field is 0.
C10_SentinelLaw ==
    (reported /\ Len(_labels) = 0) =>
        /\ \A k \in RateKeys : snapshot[k] = NaN
        /\ \A k \in CountKeys : snapshot[k] = Num(0)

\* The aligned pairs after a send_feedback call that returned, and counts
\* over a set S of their indices.
fed == op = "send_feedback" /\ ret.err = "none"
L == Min(Len(_labels), Len(_predictions))
Recent(k) == (L - k + 1)..L
Hits(S, t, p) == Cardinality({i \in S : _labels[i] = t /\ _predictions[i] = p})
RatesOver(S) == rates(Hits(S, 0, 0), Hits(S, 0, 1), Hits(S, 1, 0), Hits(S, 1, 1))

\* C11: after a send_feedback call that returned, with roll_window w and L
\* aligned pairs, the stored rolling rates, nb_outliers_roll and
\* nb_labels_roll are those of the min(w, L) most recent aligned pairs, and
\* the stored cumulative counts, rates and totals are those of all L pairs.
C11_RollingOverLastMinWL ==
    fed =>
        LET W == Recent(Min(self_roll_window, L))
            A == 1..L
        IN  /\ Cardinality(W) = Min(self_roll_window, L)
            /\ <<metric[10], metric[11], metric[12], metric[13], metric[14]>>
                    = RatesOver(W)
            /\ metric[15] = Num(Hits(W, 0, 1) + Hits(W, 1, 1))
            /\ metric[16] = Num(Hits(W, 1, 0) + Hits(W, 1, 1))
            /\ <<metric[1], metric[2], metric[3], metric[4]>>
                    = <<Num(Hits(A, 0, 0)), Num(Hits(A, 0, 1)),
                        Num(Hits(A, 1, 0)), Num(Hits(A, 1, 1))>>
            /\ <<metric[5], metric[6], metric[7], metric[8], metric[9]>>
                    = RatesOver(A)
            /\ metric[17] = Num(Hits(A, 0, 1) + Hits(A, 1, 1))
            /\ metric[18] = Num(Hits(A, 1, 0) + Hits(A, 1, 1))

\* C11 witness: more aligned pairs than the window holds, and a rolling
\* accuracy and label count that differ from the cumulative ones.
C11_Witness ==
    /\ fed
    /\ self_roll_window < L
    /\ metric[10] # metric[5]
    /\ metric[16] # metric[18]

\* C12 as claimed, for the send_feedback calls that return: the stored
\* cumulative confusion counts are numbers and add up to the number of labels
\* received so far.
C12_CountsCoverEveryLabel ==
    fed =>
        /\ \A j \in 1..4 : ~IsNaN(metric[j])
        /\ metric[1][1] + metric[2][1] + metric[3][1] + metric[4][1]
              = Len(_labels)

\* C13 as claimed: a send_feedback call that ends in an error leaves the
\* label history exactly as it was before the call.
C13_FailedFeedbackKeepsLabels ==
    [][(op' = "send_feedback" /\ ret'.err # "none") => _labels' = _labels]_vars

\* C14: a predict call in which the score source raises passes that
\* exception to the caller and leaves N, the prediction and score histories
\* and the rest of the session as they were.
C14_ScoreFailureAppendsNothing ==
    [][(op' = "predict" /\ ret'.err # "none") =>
        /\ ret'.err \in ScoreFailures
        /\ ret'.pred = <<>>
        /\ N' = N
        /\ _predictions' = _predictions
        /\ _anomaly_score' = _anomaly_score
        /\ UNCHANGED session]_vars

\* C14 witness: a failed predict call on a session that holds predictions.
C14_Witness ==
    /\ op = "predict"
    /\ ret.err = "ScoreSourceError"
    /\ N >= 2
    /\ Len(_predictions) = N
    /\ Len(_anomaly_score) = N

IsPrefix(s, t) == Len(s) <= Len(t) /\ SubSeq(t, 1, Len(s)) = s

\* C15: over every call the prediction, score and label histories before
\* the call are prefixes of those after it; a predict call that returns adds
\* exactly its batch of predictions and scores at the tail, in order, and a
\* send_feedback call adds exactly its truth batch at the tail, in order.
C15_HistoriesAppendOnly ==
    [][/\ IsPrefix(_predictions, _predictions')
       /\ IsPrefix(_anomaly_score, _anomaly_score')
       /\ IsPrefix(_labels, _labels')
       /\ (op' = "predict" /\ ret'.err = "none") =>
              /\ _predictions' = _predictions \o ret'.pred
              /\ _anomaly_score' = _anomaly_score \o decision_val'.val
       /\ (op' = "send_feedback") => _labels' = _labels \o label'.val]_vars

\* C15 witness: a batch of two different predictions appended behind an
\* earlier one, with two different labels already in the label history.
C15_Witness ==
    /\ op = "predict"
    /\ ret.err = "none"
    /\ Len(_predictions) = 3
    /\ Len(prediction.val) = 2
    /\ prediction.val[1] # prediction.val[2]
    /\ SubSeq(_predictions, 2, 3) = prediction.val
    /\ SubSeq(_anomaly_score, 2, 3) = decision_val.val
    /\ Len(_labels) >= 2
    /\ _labels[1] # _labels[2]

\* Sets of aligned pairs without a predicted positive, without a labelled one.
NoPredicted(S) == Hits(S, 0, 1) + Hits(S, 1, 1) = 0
NoLabelled(S) == Hits(S, 1, 0) + Hits(S, 1, 1) = 0

\* C16: a send_feedback call made while the cumulative history or the rolling
\* window has no predicted positive or no labelled positive does not fail for
\* that (it fails only where the two histories differ in length), and when
\* it returns, the precision or recall with the zero denominator is stored
\* as not-a-number.
C16_ZeroDenominatorIsNaN ==
    LET W == Recent(Min(self_roll_window, L))
        A == 1..L
    IN  (op = "send_feedback"
            /\ (NoPredicted(A) \/ NoLabelled(A) \/ NoPredicted(W) \/ NoLabelled(W))) =>
            /\ (Len(_labels) = Len(_predictions)) => ret.err = "none"
            /\ fed =>
                  /\ NoPredicted(A) => metric[6] = NaN
                  /\ NoLabelled(A) => metric[7] = NaN
                  /\ NoPredicted(W) => metric[11] = NaN
                  /\ NoLabelled(W) => metric[12] = NaN

\* C16 witness: a call that returned with no predicted positive in the
\* window but one in the cumulative history: the rolling precision is
\* not-a-number and the cumulative one is a number.
C16_Witness ==
    /\ fed
    /\ Len(_labels) = Len(_predictions)
    /\ NoPredicted(Recent(Min(self_roll_window, L)))
    /\ ~NoPredicted(1..L)
    /\ metric[11] = NaN
    /\ ~IsNaN(metric[6])

\* The 18 metric keys in the order of the positions 0..17 of self.metric
\* that the claim gives them.
MetricKeys ==
    << "true_negative", "false_positive", "false_negative", "true_positive",
       "accuracy_tot", "precision_tot", "recall_tot", "f1_tot", "f2_tot",
       "accuracy_roll", "precision_roll", "recall_roll", "f1_roll", "f2_roll",
       "nb_outliers_roll", "nb_labels_roll", "nb_outliers_tot",
       "nb_labels_tot" >>

\* C17: the stored metric starts as 18 not-a-number values and changes only
\* in a send_feedback call that returns, which stores what it computed from
\* the histories; predict and metrics leave it unchanged; and a snapshot
\* returned by metrics() carries position i of the stored metric under the
\* i-th metric key.
C17_SnapshotIsLastFeedbackMetric ==
    /\ \A i \in 1..18 : metric[i] = NaN
    /\ [][/\ (op' \in {"predict", "metrics"}) => metric' = metric
          /\ (metric' # metric) =>
                /\ op' = "send_feedback"
                /\ ret'.err = "none"
                /\ metric' = recompute(_labels', _predictions')]_vars
    /\ [](reported =>
            \A i \in 1..18 : snapshot[MetricKeys[i]] = metric[i])

\* C17 witness: a snapshot returned after a predict that followed the last
\* feedback, whose cumulative precision and recall are different numbers.
C17_Witness ==
    /\ reported
    /\ Len(_predictions) > Len(_labels)
    /\ ~IsNaN(snapshot.precision_tot)
    /\ ~IsNaN(snapshot.recall_tot)
    /\ snapshot.precision_tot # snapshot.recall_tot

\* C18: in every reachable state the score history and the prediction
\* history both have length N, and the prediction stored at each index is 1
\* exactly when the score stored at that index is below the threshold.
C18_ScoresAlignedWithPredictions ==
    /\ Len(_anomaly_score) = N
    /\ Len(_predictions) = N
    /\ \A i \in 1..N :
          /\ _predictions[i] \in {0, 1}
          /\ _predictions[i] = 1 <=> _anomaly_score[i] < threshold

\* C18 witness: three stored observations from two predict calls, holding an
\* outlier and a score at the threshold that is not one.
C18_Witness ==
    /\ N = 3
    /\ Len(prediction.val) = 2
    /\ \E i, j \in 1..N :
          /\ _predictions[i] = 1
          /\ _predictions[j] = 0 /\ _anomaly_score[j] = threshold

\* C19 as claimed: whenever a predict call has returned and the most recent
\* batch had exactly one element, metrics() returns a snapshot and does not
\* fail, also with N >= 2 and no send_feedback call made yet.
C19_SingleBatchReportSucceeds ==
    (op = "metrics" /\ prediction.set /\ Len(prediction.val) = 1) =>
        /\ ret.err = "none"
        /\ Len(ret.snap) = 1

====
